---- MODULE Spec2Model ----
(***************************************************************************)
(* Model of stride_threat_model.py: the tolerant parsing of the two model  *)
(* responses (extract_components, analyze_stride), the report renderer     *)
(* (generate_report) and the orchestration in main.                        *)
(*                                                                         *)
(* A text is a sequence of characters.  A character is a one-character     *)
(* string for every character the code or the JSON grammar looks at        *)
(* (braces, brackets, the double quote, colon, comma, space, newline and   *)
(* backtick, the last written TICK), and a run of letters or digits is     *)
(* written as one element:                                                 *)
(* no operation of the program looks inside such a run.                    *)
(***************************************************************************)
EXTENDS Integers, Sequences, FiniteSets, TLC

\* ------------------------------------------------------------------------
\* Text helpers (Python str methods used by the parsing code)
\* ------------------------------------------------------------------------

QUOTE == "\""
NL == "\n"
TICK == "TICK"

\* str.strip() with no argument strips whitespace
IsSpace(c) == c \in {" ", NL}

RECURSIVE lstrip(_)
lstrip(t) ==
  IF t # <<>> /\ IsSpace(Head(t)) THEN lstrip(Tail(t)) ELSE t

RECURSIVE rstrip(_)
rstrip(t) ==
  IF t # <<>> /\ IsSpace(t[Len(t)]) THEN rstrip(SubSeq(t, 1, Len(t) - 1)) ELSE t

strip(t) == rstrip(lstrip(t))

\* raw.startswith(fence)
startswith_fence(t) ==
  Len(t) >= 3 /\ t[1] = TICK /\ t[2] = TICK /\ t[3] = TICK

\* raw.endswith(fence)
endswith_fence(t) ==
  Len(t) >= 3 /\ t[Len(t)] = TICK /\ t[Len(t) - 1] = TICK /\ t[Len(t) - 2] = TICK

\* str.find(c): 0-based index of the first occurrence, -1 when absent
find(t, c) ==
  IF \E i \in 1..Len(t) : t[i] = c
  THEN (CHOOSE i \in 1..Len(t) : t[i] = c /\ \A j \in 1..(i - 1) : t[j] # c) - 1
  ELSE -1

\* str.rfind(c): 0-based index of the last occurrence, -1 when absent
rfind(t, c) ==
  IF \E i \in 1..Len(t) : t[i] = c
  THEN (CHOOSE i \in 1..Len(t) : t[i] = c /\ \A j \in (i + 1)..Len(t) : t[j] # c) - 1
  ELSE -1

\* Python slice t[a:b] for 0 <= a, 0 <= b
slice(t, a, b) ==
  LET hi == IF b > Len(t) THEN Len(t) ELSE b
  IN  IF a >= hi THEN <<>> ELSE SubSeq(t, a + 1, hi)

\* raw.split(newline, 1): a list of one element when there is no newline,
\* of two elements (before, after the first newline) otherwise
split_first_line(t) ==
  LET i == find(t, NL)
  IN  IF i = -1 THEN <<t>>
      ELSE <<slice(t, 0, i), slice(t, i + 1, Len(t))>>

\* ------------------------------------------------------------------------
\* json.loads on the subset: objects, arrays, strings, numbers, null
\* A value is <<tag, payload>>:
\*   dict: a function from keys (texts) to values
\*   list: a sequence of values
\*   str:  the text between the quotes
\*   num:  the literal
\*   null: the empty tuple
\* ------------------------------------------------------------------------

Digits == {"0", "1", "2", "3"}

JDict(f) == <<"dict", f>>
JList(s) == <<"list", s>>
JStr(t) == <<"str", t>>
JNum(t) == <<"num", t>>
JNull == <<"null", <<>> >>

IsDict(v) == v[1] = "dict"
IsStr(v) == v[1] = "str"

EmptyMap == [k \in {} |-> JNull]

\* dict[key] = value (a later duplicate key replaces the earlier one)
MapPut(f, k, v) == [x \in (DOMAIN f) \cup {k} |-> IF x = k THEN v ELSE f[x]]

Fail == [ok |-> FALSE, val |-> JNull, pos |-> 0]
Ok(v, p) == [ok |-> TRUE, val |-> v, pos |-> p]

\* position of the first non-whitespace character at or after p (1-based)
RECURSIVE SkipWs(_, _)
SkipWs(t, p) ==
  IF p <= Len(t) /\ IsSpace(t[p]) THEN SkipWs(t, p + 1) ELSE p

\* a string literal starting at p (t[p] is the opening quote): the text up to
\* the next quote; a control character inside the literal is an error
ScanString(t, p) ==
  IF \E q \in (p + 1)..Len(t) : t[q] = QUOTE
  THEN LET q == CHOOSE q \in (p + 1)..Len(t) :
                  t[q] = QUOTE /\ \A j \in (p + 1)..(q - 1) : t[j] # QUOTE
           body == SubSeq(t, p + 1, q - 1)
       IN  IF \E j \in 1..Len(body) : body[j] = NL
           THEN Fail
           ELSE Ok(JStr(body), q + 1)
  ELSE Fail

RECURSIVE ParseValue(_, _)
RECURSIVE ParseMembers(_, _, _)
RECURSIVE ParseElements(_, _, _)

\* the members of an object after its opening brace: key, colon, value,
\* then a comma and further members, or the closing brace
ParseMembers(t, p, acc) ==
  IF p > Len(t) \/ t[p] # QUOTE THEN Fail
  ELSE
    LET k == ScanString(t, p)
    IN  IF ~k.ok THEN Fail
        ELSE
          LET c == SkipWs(t, k.pos)
          IN  IF c > Len(t) \/ t[c] # ":" THEN Fail
              ELSE
                LET v == ParseValue(t, SkipWs(t, c + 1))
                IN  IF ~v.ok THEN Fail
                    ELSE
                      LET e == SkipWs(t, v.pos)
                          acc2 == MapPut(acc, k.val[2], v.val)
                      IN  IF e > Len(t) THEN Fail
                          ELSE IF t[e] = "}" THEN Ok(JDict(acc2), e + 1)
                          ELSE IF t[e] = ","
                            THEN ParseMembers(t, SkipWs(t, e + 1), acc2)
                          ELSE Fail

\* the elements of an array after its opening bracket: value, then a comma
\* and further elements, or the closing bracket
ParseElements(t, p, acc) ==
  LET v == ParseValue(t, p)
  IN  IF ~v.ok THEN Fail
      ELSE
        LET e == SkipWs(t, v.pos)
            acc2 == Append(acc, v.val)
        IN  IF e > Len(t) THEN Fail
            ELSE IF t[e] = "]" THEN Ok(JList(acc2), e + 1)
            ELSE IF t[e] = "," THEN ParseElements(t, SkipWs(t, e + 1), acc2)
            ELSE Fail

ParseValue(t, p) ==
  IF p > Len(t) THEN Fail
  ELSE IF t[p] = QUOTE THEN ScanString(t, p)
  ELSE IF t[p] = "{"
    THEN LET q == SkipWs(t, p + 1)
         IN  IF q <= Len(t) /\ t[q] = "}" THEN Ok(JDict(EmptyMap), q + 1)
             ELSE ParseMembers(t, q, EmptyMap)
  ELSE IF t[p] = "["
    THEN LET q == SkipWs(t, p + 1)
         IN  IF q <= Len(t) /\ t[q] = "]" THEN Ok(JList(<<>>), q + 1)
             ELSE ParseElements(t, q, <<>>)
  ELSE IF t[p] \in Digits THEN Ok(JNum(<<t[p]>>), p + 1)
  ELSE IF t[p] = "null" THEN Ok(JNull, p + 1)
  ELSE Fail

\* json.loads(s): whitespace, one value, whitespace, end of text;
\* anything else raises json.JSONDecodeError
json_loads(t) ==
  LET v == ParseValue(t, SkipWs(t, 1))
  IN  IF v.ok /\ SkipWs(t, v.pos) > Len(t)
      THEN [kind |-> "ok", val |-> v.val]
      ELSE [kind |-> "JSONDecodeError", val |-> JNull]

\* an exception leaving a parsing function
Raise(e) == [kind |-> e, val |-> JNull]

\* ------------------------------------------------------------------------
\* Python values as the renderer uses them
\* ------------------------------------------------------------------------

\* a string literal of the code, as a value and as a dictionary key
Lit(word) == JStr(<<word>>)
Key(word) == <<word>>

\* dict.get(key, default)
Get(d, key, default) == IF key \in DOMAIN d[2] THEN d[2][key] ELSE default
Has(d, key) == key \in DOMAIN d[2]

\* truth value of a Python object (if x: / if not x:)
Truthy(v) ==
  CASE v[1] = "list" -> v[2] # <<>>
    [] v[1] = "str" -> v[2] # <<>>
    [] v[1] = "dict" -> DOMAIN v[2] # {}
    [] v[1] = "num" -> v[2] # <<"0">>
    [] OTHER -> FALSE

\* a set of texts as a sequence (the order of a dictionary's keys is not used)
RECURSIVE SetToSeq(_)
SetToSeq(S) ==
  IF S = {} THEN <<>>
  ELSE LET e == CHOOSE e \in S : TRUE IN <<e>> \o SetToSeq(S \ {e})

\* for x in v: the items, or TypeError when v is not iterable
Iter(v) ==
  CASE v[1] = "list" -> [err |-> "", items |-> v[2]]
    [] v[1] = "str" ->
         [err |-> "", items |-> [i \in 1..Len(v[2]) |-> JStr(<<v[2][i]>>)]]
    [] v[1] = "dict" ->
         [err |-> "",
          items |-> LET ks == SetToSeq(DOMAIN v[2])
                    IN  [i \in 1..Len(ks) |-> JStr(ks[i])]]
    [] OTHER -> [err |-> "TypeError", items |-> <<>>]

\* "; ".join(v): TypeError unless v is an iterable of strings
Join(v) ==
  LET it == Iter(v)
  IN  IF it.err # "" THEN [err |-> "TypeError", val |-> JNull]
      ELSE IF \E i \in 1..Len(it.items) : ~IsStr(it.items[i])
        THEN [err |-> "TypeError", val |-> JNull]
      ELSE [err |-> "", val |-> <<"joined", it.items>>]

\* whether v can be a dictionary key
Hashable(v) == v[1] \notin {"list", "dict"}

RECURSIVE Flatten(_)
Flatten(ss) == IF ss = <<>> THEN <<>> ELSE Head(ss) \o Flatten(Tail(ss))

\* the error of the first failing item of a loop, or none
FirstErr(rs) ==
  IF \E i \in 1..Len(rs) : rs[i].err # ""
  THEN rs[CHOOSE i \in 1..Len(rs) :
            rs[i].err # "" /\ \A j \in 1..(i - 1) : rs[j].err = ""].err
  ELSE ""

\* the outcome of a loop whose iterations give rs
Loop(rs) ==
  LET e == FirstErr(rs)
  IN  IF e # "" THEN [err |-> e, lines |-> <<>>]
      ELSE [err |-> "", lines |-> Flatten([i \in 1..Len(rs) |-> rs[i].lines])]

Lines(ls) == [err |-> "", lines |-> ls]
Err(e) == [err |-> e, lines |-> <<>>]

\* the sections of the report one after another: the first error ends it
RECURSIVE Sections(_)
Sections(ss) ==
  IF ss = <<>> THEN Lines(<<>>)
  ELSE IF Head(ss).err # "" THEN Err(Head(ss).err)
  ELSE LET rest == Sections(Tail(ss))
       IN  IF rest.err # "" THEN rest
           ELSE Lines(Head(ss).lines \o rest.lines)

\* ------------------------------------------------------------------------
\* generate_report
\* ------------------------------------------------------------------------

NA == Lit("N/A")
White == "white"

\* SEVERITY_EMOJI.get(sev, white circle)
SEVERITY_EMOJI(sev) ==
  CASE sev = Lit("Critical") -> "red"
    [] sev = Lit("High") -> "orange"
    [] sev = Lit("Medium") -> "yellow"
    [] sev = Lit("Low") -> "green"
    [] OTHER -> White

Blank == <<"blank">>

\* header, executive summary and architecture overview
HeaderSection(components_data, stride_data, image_path, now) ==
  LET arch_summary == Get(components_data, Key("architecture_summary"), NA)
      exec_summary == Get(stride_data, Key("executive_summary"), NA)
      overall_risk == Get(stride_data, Key("overall_risk_level"), NA)
  IN  Lines(<< <<"title">>, Blank,
               <<"generated", now>>,
               <<"source", image_path>>,
               <<"risk", SEVERITY_EMOJI(overall_risk), overall_risk>>,
               Blank, <<"rule">>, Blank,
               <<"h2", "Resumo Executivo">>, Blank,
               <<"raw", exec_summary>>, Blank,
               <<"h2", "Visao Geral da Arquitetura">>, Blank,
               <<"raw", arch_summary>>, Blank >>)

\* the component inventory table
InventoryRow(i, comp) ==
  IF ~IsDict(comp) THEN Err("AttributeError")
  ELSE Lines(<< <<"inv_row", i,
                  Get(comp, Key("name"), NA), Get(comp, Key("type"), NA),
                  Get(comp, Key("provider"), NA),
                  Get(comp, Key("description"), NA)>> >>)

InventorySection(components) ==
  LET it == Iter(components)
  IN  IF it.err # "" THEN Err(it.err)
      ELSE Sections(<<
             Lines(<< <<"h2", "Componentes Identificados">>, Blank,
                      <<"inv_header">>, <<"inv_sep">> >>),
             Loop([i \in 1..Len(it.items) |-> InventoryRow(i, it.items[i])]),
             Lines(<<Blank>>) >>)

\* one connection line of the data-flow listing
FlowLine(conn) ==
  IF ~IsDict(conn) THEN Err("AttributeError")
  ELSE Lines(<< <<"flow_line", Get(conn, Key("target"), Lit("?")),
                  Get(conn, Key("data_flow"), Lit("?"))>> >>)

\* FlowOfComponent without the test for connections
FlowOfComponent_Always(comp) ==
  LET connections == Get(comp, Key("connections"), JList(<<>>))
  IN  IF ~Has(comp, Key("name")) THEN Err("KeyError")
      ELSE LET it == Iter(connections)
           IN  IF it.err # "" THEN Err(it.err)
               ELSE Sections(<<
                      Lines(<< <<"flow_h3", comp[2][Key("name")]>> >>),
                      Loop([i \in 1..Len(it.items) |-> FlowLine(it.items[i])]),
                      Lines(<<Blank>>) >>)

\* FlowOfComponent reading the name with a default
FlowOfComponent_Default(comp) ==
  LET connections == Get(comp, Key("connections"), JList(<<>>))
  IN  IF ~Truthy(connections) THEN Lines(<<>>)
      ELSE LET it == Iter(connections)
           IN  IF it.err # "" THEN Err(it.err)
               ELSE Sections(<<
                      Lines(<< <<"flow_h3", Get(comp, Key("name"), NA)>> >>),
                      Loop([i \in 1..Len(it.items) |-> FlowLine(it.items[i])]),
                      Lines(<<Blank>>) >>)

\* the data-flow listing of one component
FlowOfComponent(comp) ==
  LET connections == Get(comp, Key("connections"), JList(<<>>))
  IN  IF ~Truthy(connections) THEN Lines(<<>>)
      ELSE IF ~Has(comp, Key("name")) THEN Err("KeyError")
      ELSE LET it == Iter(connections)
           IN  IF it.err # "" THEN Err(it.err)
               ELSE Sections(<<
                      Lines(<< <<"flow_h3", comp[2][Key("name")]>> >>),
                      Loop([i \in 1..Len(it.items) |-> FlowLine(it.items[i])]),
                      Lines(<<Blank>>) >>)

DataFlowSection(components) ==
  LET it == Iter(components)
  IN  Sections(<<
        Lines(<< <<"h2", "Fluxo de Dados">>, Blank >>),
        Loop([i \in 1..Len(it.items) |-> FlowOfComponent(it.items[i])]) >>)

\* one row of a STRIDE table
ThreatRow(t) ==
  IF ~IsDict(t) THEN Err("AttributeError")
  ELSE LET cat == Get(t, Key("category"), NA)
           threat_desc == Get(t, Key("threat"), NA)
           sev == Get(t, Key("severity"), NA)
           vulns == Join(Get(t, Key("vulnerabilities"), JList(<<>>)))
           counters == Join(Get(t, Key("countermeasures"), JList(<<>>)))
       IN  IF vulns.err # "" THEN Err(vulns.err)
           ELSE IF counters.err # "" THEN Err(counters.err)
           ELSE Lines(<< <<"threat_row", cat, threat_desc, SEVERITY_EMOJI(sev),
                           sev, vulns.val, counters.val>> >>)

\* the STRIDE part of one entry: a table, or the placeholder line
StrideOfEntry(entry) ==
  IF ~IsDict(entry) THEN Err("AttributeError")
  ELSE LET comp_name == Get(entry, Key("component_name"), Lit("Desconhecido"))
           comp_type == Get(entry, Key("component_type"), Lit("Desconhecido"))
           threats == Get(entry, Key("threats"), JList(<<>>))
           head == Lines(<< <<"stride_h3", comp_name, comp_type>>, Blank >>)
       IN  IF ~Truthy(threats)
           THEN Sections(<<head, Lines(<< <<"placeholder">>, Blank >>)>>)
           ELSE LET it == Iter(threats)
                IN  IF it.err # "" THEN Err(it.err)
                    ELSE Sections(<<
                           head,
                           Lines(<< <<"table_header">>, <<"table_sep">> >>),
                           Loop([i \in 1..Len(it.items) |->
                                   ThreatRow(it.items[i])]),
                           Lines(<<Blank>>) >>)

StrideSection(stride_analysis) ==
  LET it == Iter(stride_analysis)
  IN  IF it.err # "" THEN Err(it.err)
      ELSE Sections(<<
             Lines(<< <<"rule">>, Blank,
                      <<"h2", "Analise de Ameacas STRIDE">>, Blank >>),
             Loop([i \in 1..Len(it.items) |-> StrideOfEntry(it.items[i])]) >>)


\* CountPut with the count set to one instead of raised by one
CountPut_Reset(f, k) ==
  [x \in (DOMAIN f) \cup {k} |-> IF x = k THEN 1 ELSE f[x]]

\* severity_counts[sev] = severity_counts.get(sev, 0) + 1
CountPut(f, k) ==
  [x \in (DOMAIN f) \cup {k} |->
     IF x = k THEN (IF k \in DOMAIN f THEN f[k] ELSE 0) + 1 ELSE f[x]]

CountGet(f, k) == IF k \in DOMAIN f THEN f[k] ELSE 0

\* the severity labels of the code, in the order of its lists (the accented
\* letters of the first four are written without the accent)
SeverityLabels ==
  << Lit("Critica"), Lit("Alta"), Lit("Media"), Lit("Baixa"),
     Lit("Critical"), Lit("High"), Lit("Medium"), Lit("Low") >>

CategoryLabels ==
  << Lit("Spoofing"), Lit("Tampering"), Lit("Repudiation"),
     JStr(<<"Information", " ", "Disclosure">>),
     JStr(<<"Denial", " ", "of", " ", "Service">>),
     JStr(<<"Elevation", " ", "of", " ", "Privilege">>) >>

InitialSeverityCounts ==
  [k \in {SeverityLabels[i] : i \in 1..Len(SeverityLabels)} |-> 0]

\* the threats of every entry, in order, as the counting loops visit them
ThreatsOfEntry(entry) ==
  LET it == Iter(Get(entry, Key("threats"), JList(<<>>)))
  IN  [err |-> it.err, lines |-> it.items]

\* the body of the counting loop over the threats ts
RECURSIVE CountThreats(_, _, _)
CountThreats(ts, severity_counts, category_counts) ==
  IF ts = <<>>
  THEN [err |-> "", sev |-> severity_counts, cat |-> category_counts]
  ELSE LET t == Head(ts)
       IN  IF ~IsDict(t)
           THEN [err |-> "AttributeError", sev |-> severity_counts,
                 cat |-> category_counts]
           ELSE LET sev == Get(t, Key("severity"), Lit("Baixa"))
                    cat == Get(t, Key("category"), Lit("Outro"))
                IN  IF ~Hashable(sev) \/ ~Hashable(cat)
                    THEN [err |-> "TypeError", sev |-> severity_counts,
                          cat |-> category_counts]
                    ELSE CountThreats(Tail(ts), CountPut(severity_counts, sev),
                                      CountPut(category_counts, cat))

\* the rows of the severity table: a label is shown when it has an emoji
SeverityRows(severity_counts) ==
  Flatten([i \in 1..Len(SeverityLabels) |->
     LET sev == SeverityLabels[i]
         emoji == SEVERITY_EMOJI(sev)
     IN  IF emoji # White
         THEN << <<"sev_row", emoji, sev, CountGet(severity_counts, sev)>> >>
         ELSE <<>>])

CategoryRows(category_counts) ==
  [i \in 1..Len(CategoryLabels) |->
     <<"cat_row", CategoryLabels[i], CountGet(category_counts, CategoryLabels[i])>>]

\* the risk matrix
SummarySection(stride_analysis) ==
  LET it == Iter(stride_analysis)
      per == Loop([i \in 1..Len(it.items) |-> ThreatsOfEntry(it.items[i])])
  IN  IF per.err # "" THEN Err(per.err)
      ELSE LET c == CountThreats(per.lines, InitialSeverityCounts,
                                 [k \in {} |-> 0])
           IN  IF c.err # "" THEN Err(c.err)
               ELSE Lines(
                  << <<"rule">>, Blank,
                     <<"h2", "Matriz de Resumo de Risco">>, Blank,
                     <<"h3", "Por Severidade">>, Blank,
                     <<"sev_header">>, <<"sev_sep">> >>
                  \o SeverityRows(c.sev) \o
                  << Blank, <<"h3", "Por Categoria STRIDE">>, Blank,
                     <<"cat_header">>, <<"cat_sep">> >>
                  \o CategoryRows(c.cat) \o
                  << Blank, <<"rule">>, Blank, <<"footer">>, Blank >>)

\* report = newline.join(lines): every line must be a string; the two
\* summaries are the only lines appended as they came
JoinLines(components_data, stride_data) ==
  IF /\ IsStr(Get(stride_data, Key("executive_summary"), NA))
     /\ IsStr(Get(components_data, Key("architecture_summary"), NA))
  THEN Lines(<<>>)
  ELSE Err("TypeError")

\* the text of the report (before the file is opened), or the exception
generate_report(components_data, stride_data, image_path, now) ==
  IF ~IsDict(components_data) \/ ~IsDict(stride_data)
  THEN Err("AttributeError")
  ELSE LET components == Get(components_data, Key("components"), JList(<<>>))
           stride_analysis == Get(stride_data, Key("stride_analysis"), JList(<<>>))
       IN  Sections(<<
             HeaderSection(components_data, stride_data, image_path, now),
             InventorySection(components),
             DataFlowSection(components),
             StrideSection(stride_analysis),
             SummarySection(stride_analysis),
             JoinLines(components_data, stride_data) >>)

\* ------------------------------------------------------------------------
\* json.dumps(value, indent=2)
\* ------------------------------------------------------------------------

Spaces(n) == [i \in 1..n |-> " "]

RECURSIVE dumps(_, _)
RECURSIVE DumpItems(_, _)
RECURSIVE DumpMembers(_, _, _)

\* the items of a list, each on its own line at the given indentation
DumpItems(items, level) ==
  IF items = <<>> THEN <<>>
  ELSE <<NL>> \o Spaces(2 * level) \o dumps(Head(items), level)
       \o (IF Len(items) > 1 THEN <<",">> ELSE <<>>)
       \o DumpItems(Tail(items), level)

DumpMembers(keys, f, level) ==
  IF keys = <<>> THEN <<>>
  ELSE <<NL>> \o Spaces(2 * level)
       \o <<QUOTE>> \o Head(keys) \o <<QUOTE, ":", " ">>
       \o dumps(f[Head(keys)], level)
       \o (IF Len(keys) > 1 THEN <<",">> ELSE <<>>)
       \o DumpMembers(Tail(keys), f, level)

dumps(v, level) ==
  CASE v[1] = "str" -> <<QUOTE>> \o v[2] \o <<QUOTE>>
    [] v[1] = "num" -> v[2]
    [] v[1] = "null" -> <<"null">>
    [] v[1] = "list" ->
         IF v[2] = <<>> THEN <<"[", "]">>
         ELSE <<"[">> \o DumpItems(v[2], level + 1)
              \o <<NL>> \o Spaces(2 * level) \o <<"]">>
    [] v[1] = "dict" ->
         IF DOMAIN v[2] = {} THEN <<"{", "}">>
         ELSE <<"{">> \o DumpMembers(SetToSeq(DOMAIN v[2]), v[2], level + 1)
              \o <<NL>> \o Spaces(2 * level) \o <<"}">>


\* ------------------------------------------------------------------------
\* load_image_as_base64
\* ------------------------------------------------------------------------

\* path.suffix.lower() on the extensions drawn below
Lower(ext) == IF ext = ".JPG" THEN ".jpg" ELSE ext

\* mime_map.get(ext, image/png)
mime_type_of(ext) ==
  CASE Lower(ext) = ".png" -> "image/png"
    [] Lower(ext) = ".jpg" -> "image/jpeg"
    [] Lower(ext) = ".jpeg" -> "image/jpeg"
    [] Lower(ext) = ".gif" -> "image/gif"
    [] Lower(ext) = ".webp" -> "image/webp"
    [] Lower(ext) = ".bmp" -> "image/bmp"
    [] OTHER -> "image/png"

\* ------------------------------------------------------------------------
\* The response parsing of the two model calls
\* ------------------------------------------------------------------------

\* extract_components, from the response content to the returned value
extract_components(content) ==
  LET raw0 == strip(content)
      parts == split_first_line(raw0)
  IN  IF startswith_fence(raw0) /\ Len(parts) < 2 THEN Raise("IndexError")
      ELSE
        LET raw == IF startswith_fence(raw0)
                   THEN strip(IF endswith_fence(parts[2])
                              THEN slice(parts[2], 0, Len(parts[2]) - 3)
                              ELSE parts[2])
                   ELSE raw0
            strict == json_loads(raw)
            start == find(raw, "{")
            end == rfind(raw, "}") + 1
        IN  IF strict.kind = "ok" THEN strict
            ELSE IF start # -1 /\ end > start
              THEN json_loads(slice(raw, start, end))
            ELSE Raise("ValueError")

\* analyze_stride, from the response content to the returned value
analyze_stride(content) ==
  LET raw0 == strip(content)
      parts == split_first_line(raw0)
  IN  IF startswith_fence(raw0) /\ Len(parts) < 2 THEN Raise("IndexError")
      ELSE
        LET raw == IF startswith_fence(raw0)
                   THEN strip(IF endswith_fence(parts[2])
                              THEN slice(parts[2], 0, Len(parts[2]) - 3)
                              ELSE parts[2])
                   ELSE raw0
            strict == json_loads(raw)
            start == find(raw, "{")
            end == rfind(raw, "}") + 1
        IN  IF strict.kind = "ok" THEN strict
            ELSE IF start # -1 /\ end > start
              THEN json_loads(slice(raw, start, end))
            ELSE Raise("ValueError")

\* stride_request reading a misspelt key of the extracted document
stride_request_Typo(components_data) ==
  [components_json |->
     dumps(Get(components_data, Key("component"), JList(<<>>)), 0),
   architecture_summary |->
     Get(components_data, Key("architecture_summary"), NA)]

\* the prompt context analyze_stride builds from the extracted document
stride_request(components_data) ==
  [components_json |->
     dumps(Get(components_data, Key("components"), JList(<<>>)), 0),
   architecture_summary |->
     Get(components_data, Key("architecture_summary"), NA)]

\* len(x): TypeError for a number or null
HasLen(v) == v[1] \in {"list", "str", "dict"}

\* main, lines 453: num_components; the exception it raises, or none
num_components_error(components_data) ==
  IF ~IsDict(components_data) THEN "AttributeError"
  ELSE IF ~HasLen(Get(components_data, Key("components"), JList(<<>>)))
    THEN "TypeError"
  ELSE ""

\* main, lines 461-464: total_threats; the exception it raises, or none
total_threats_error(stride_data) ==
  IF ~IsDict(stride_data) THEN "AttributeError"
  ELSE LET it == Iter(Get(stride_data, Key("stride_analysis"), JList(<<>>)))
       IN  IF it.err # "" THEN it.err
           ELSE FirstErr([i \in 1..Len(it.items) |->
                  IF ~IsDict(it.items[i]) THEN Err("AttributeError")
                  ELSE IF ~HasLen(Get(it.items[i], Key("threats"), JList(<<>>)))
                    THEN Err("TypeError")
                  ELSE Lines(<<>>)])

\* ------------------------------------------------------------------------
\* Inputs
\* ------------------------------------------------------------------------

\* a dictionary from a set of <<key, value>> pairs with distinct keys
Dict(pairs) ==
  JDict([k \in {p[1] : p \in pairs} |-> (CHOOSE p \in pairs : p[1] = k)[2]])

Fence == <<TICK, TICK, TICK>>


\* the documents the model provider answers with in the runs of main
ConnAB == Dict({<<Key("target"), Lit("B")>>, <<Key("data_flow"), Lit("http")>>})

CompA ==
  Dict({<<Key("name"), Lit("A")>>, <<Key("type"), Lit("API")>>,
        <<Key("provider"), Lit("AWS")>>, <<Key("description"), Lit("gateway")>>,
        <<Key("connections"), JList(<<ConnAB>>)>>})

CompB ==
  Dict({<<Key("name"), Lit("B")>>, <<Key("type"), Lit("DB")>>,
        <<Key("connections"), JList(<<>>)>>})

CompUnnamed == Dict({<<Key("connections"), JList(<<ConnAB>>)>>})

ArchAB ==
  Dict({<<Key("components"), JList(<<CompA, CompB>>)>>,
        <<Key("architecture_summary"), Lit("summary")>>})

ArchDocs ==
  { ArchAB,
    Dict({}),
    Dict({<<Key("components"), JList(<<CompUnnamed>>)>>}),
    Dict({<<Key("components"), JNum(<<"1">>)>>}) }

Threat(category, severity) ==
  Dict({<<Key("category"), category>>, <<Key("threat"), Lit("desc")>>,
        <<Key("severity"), severity>>,
        <<Key("vulnerabilities"), JList(<<Lit("v1"), Lit("v2")>>)>>,
        <<Key("countermeasures"), JList(<<Lit("c1")>>)>>})

Entry(name, threats) ==
  Dict({<<Key("component_name"), Lit(name)>>, <<Key("component_type"), Lit("API")>>,
        <<Key("threats"), JList(threats)>>})

StrideAB ==
  Dict({<<Key("stride_analysis"),
          JList(<<Entry("A", <<Threat(Lit("Spoofing"), Lit("Critica"))>>),
                  Entry("B", <<Threat(Lit("Spoofing"), Lit("High"))>>)>>)>>,
        <<Key("overall_risk_level"), Lit("Alta")>>,
        <<Key("executive_summary"), Lit("exec")>>})

StrideDocs ==
  { StrideAB,
    Dict({}),
    Dict({<<Key("stride_analysis"), JList(<<Entry("A", <<>>)>>)>>,
          <<Key("executive_summary"), JNull>>}),
    Dict({<<Key("stride_analysis"), JNum(<<"1">>)>>}) }

\* the ways a document reaches the program in a response, and responses
\* that hold no document
Wrappings(doc) ==
  LET j == dumps(doc, 0)
  IN  { j,
        Fence \o <<"json", NL>> \o j \o <<NL>> \o Fence,
        <<"Here", " ", "it", " ", "is", ":", NL>> \o j \o <<NL, "Done">> }

Undocumented ==
  { <<"Sorry">>, <<"[", "]">>, Fence \o <<"{", "}">> \o Fence, <<"{", QUOTE, "a">> }

ExtractResponses == UNION {Wrappings(d) : d \in ArchDocs} \cup Undocumented
AnalyzeResponses == UNION {Wrappings(d) : d \in StrideDocs} \cup Undocumented

\* the responses drawn for the parsing on its own: text before, a body,
\* text after
Befores ==
  { <<>>, <<"Here", " ">>, <<"Sure", ":", NL>>, <<"[">>, <<QUOTE>>,
    Fence \o <<NL>>, Fence \o <<"json", NL>>, Fence, Fence \o <<"json", " ">> }

Afters ==
  { <<>>, <<" ", "bye">>, <<NL>>, <<"]">>, <<QUOTE>>, <<NL>> \o Fence, Fence }

Bodies ==
  { <<"{", "}">>,
    <<"{", QUOTE, "a", QUOTE, ":", "1", "}">>,
    <<"{", QUOTE, "a", QUOTE, ":", " ", QUOTE, "}", "{", QUOTE, "}">>,
    <<"{", QUOTE, "a", QUOTE, ":", NL, "[", "1", ",", "null", "]", "}">>,
    dumps(ArchAB, 0),
    dumps(StrideAB, 0),
    <<"1">>, <<"[", "]">>, <<"null">>, <<QUOTE, "text", QUOTE>>,
    <<"no", " ", "json">>, <<>>,
    <<"{", QUOTE, "a", QUOTE, ":">>,
    <<"{", "1", "}">> }

NoInput == [before |-> <<>>, body |-> <<>>, after |-> <<>>]
Content(in) == in.before \o in.body \o in.after

\* the inputs drawn for the renderer on its own
ThreatPool ==
  { Threat(Lit("Spoofing"), Lit("Critical")),
    Threat(Lit("Tampering"), Lit("Low")),
    Threat(Lit("Spoofing"), Lit("Critica")),
    Threat(Lit("Phishing"), Lit("High")),
    Threat(JStr(<<"Information", " ", "Disclosure">>), Lit("Medium")),
    Dict({<<Key("threat"), Lit("desc")>>}) }

ConnPool == { ConnAB, Dict({}) }

MaxComponents == 2
MaxConnections == 2
MaxEntries == 2
MaxThreats == 3

\* the seconds of each time.sleep
SLEEP_SECONDS == 10

\* ------------------------------------------------------------------------
\* State
\* ------------------------------------------------------------------------

VARIABLES
  pc,               \* where main is
  image_exists,     \* Path(args.image).exists() at the check
  image_readable,   \* whether the file can still be opened and read
  image_ext,        \* the suffix of args.image
  api_key,          \* os.getenv of the credential: "None", "" or a key
  image,            \* (image_b64, mime_type) once loaded
  events,           \* what the run did, in order
  response,         \* response.content of the call being parsed
  result,           \* what the last parsing returned or raised
  components_data,
  stride_data,
  request,          \* the context of the STRIDE request
  output,           \* the file at args.output
  exit_code,        \* -1 while running
  error,            \* the unhandled exception, and the stage it left
  clock,            \* seconds slept
  input,            \* the parts of the response when parsing on its own
  comps,            \* components being put together for the renderer
  entries,          \* entries (lists of threats) being put together
  focus             \* which of the two documents is being put together

vars ==
  << pc, image_exists, image_readable, image_ext, api_key, image, events,
     response, result, components_data, stride_data, request, output,
     exit_code, error, clock, input, comps, entries, focus >>

env == <<image_exists, image_readable, image_ext, api_key>>
build == <<input, comps, entries, focus>>

NoImage == [data |-> "", mime |-> ""]
NoResult == [kind |-> "none", val |-> JNull]
NoRequest == [components_json |-> <<>>, architecture_summary |-> JNull]
NoError == [kind |-> "", stage |-> ""]
Untouched == [state |-> "untouched", content |-> <<>>]

Start ==
  /\ image = NoImage
  /\ events = <<>>
  /\ response = <<>>
  /\ result = NoResult
  /\ components_data = JNull
  /\ stride_data = JNull
  /\ request = NoRequest
  /\ output = Untouched
  /\ exit_code = -1
  /\ error = NoError
  /\ clock = 0

\* a run of main
Init ==
  /\ pc = "start"
  /\ image_exists \in BOOLEAN
  /\ image_readable \in BOOLEAN
  /\ image_ext \in {".png", ".JPG", ".svg"}
  /\ api_key \in {"None", "", "sk-key"}
  /\ Start
  /\ input = NoInput
  /\ comps = <<>>
  /\ entries = <<>>
  /\ focus = "main"

\* an unhandled exception (or sys.exit(1)) ends the process with status 1
Crash(stage, kind) ==
  /\ pc' = "crashed"
  /\ exit_code' = 1
  /\ error' = [kind |-> kind, stage |-> stage]

\* main, lines 427-429
CheckImage ==
  /\ pc = "start"
  /\ IF ~image_exists
     THEN /\ events' = Append(events, "print_image_not_found")
          /\ exit_code' = 1
          /\ pc' = "exited"
     ELSE /\ pc' = "check_key"
          /\ UNCHANGED <<events, exit_code>>
  /\ UNCHANGED <<env, build, image, response, result, components_data,
                 stride_data, request, output, error, clock>>

\* CheckKey testing the credential for None only
CheckKey_NoneOnly ==
  /\ pc = "check_key"
  /\ IF api_key = "None"
     THEN /\ events' = Append(events, "print_key_not_set")
          /\ exit_code' = 1
          /\ pc' = "exited"
     ELSE /\ events' = Append(events, "init_llm")
          /\ pc' = "load_image"
          /\ UNCHANGED exit_code
  /\ UNCHANGED <<env, build, image, response, result, components_data,
                 stride_data, request, output, error, clock>>

\* main, lines 431-444
CheckKey ==
  /\ pc = "check_key"
  /\ IF api_key \in {"None", ""}
     THEN /\ events' = Append(events, "print_key_not_set")
          /\ exit_code' = 1
          /\ pc' = "exited"
     ELSE /\ events' = Append(events, "init_llm")
          /\ pc' = "load_image"
          /\ UNCHANGED exit_code
  /\ UNCHANGED <<env, build, image, response, result, components_data,
                 stride_data, request, output, error, clock>>

\* main, line 448, and load_image_as_base64
LoadImage ==
  /\ pc = "load_image"
  /\ IF image_readable
     THEN /\ image' = [data |-> "base64", mime |-> mime_type_of(image_ext)]
          /\ events' = Append(events, "image_read")
          /\ pc' = "extract_call"
          /\ UNCHANGED <<exit_code, error>>
     ELSE /\ Crash("load_image", "OSError")
          /\ UNCHANGED <<image, events>>
  /\ UNCHANGED <<env, build, response, result, components_data, stride_data,
                 request, output, clock>>

\* extract_components, lines 105-118: the request and llm.invoke
ExtractCall ==
  /\ pc = "extract_call"
  /\ events' = Append(events, "call_extract")
  /\ \/ /\ \E r \in ExtractResponses : response' = r
        /\ pc' = "extract_parse"
        /\ UNCHANGED <<exit_code, error>>
     \/ /\ Crash("extract_call", "APIError")
        /\ UNCHANGED response
  /\ UNCHANGED <<env, build, image, result, components_data, stride_data,
                 request, output, clock>>

\* extract_components, lines 119-137, and main, lines 452-454
ExtractParse ==
  /\ pc = "extract_parse"
  /\ LET res == extract_components(response)
         e == IF res.kind # "ok" THEN res.kind
              ELSE num_components_error(res.val)
     IN  /\ result' = res
         /\ IF e = ""
            THEN /\ components_data' = res.val
                 /\ events' = Append(events, "extract_parsed")
                 /\ pc' = "sleep1"
                 /\ UNCHANGED <<exit_code, error>>
            ELSE /\ Crash("extract_parse", e)
                 /\ components_data' =
                      IF res.kind = "ok" THEN res.val ELSE components_data
                 /\ UNCHANGED events
  /\ UNCHANGED <<env, build, image, response, stride_data, request, output,
                 clock>>

\* main, line 456
Sleep1 ==
  /\ pc = "sleep1"
  /\ clock' = clock + SLEEP_SECONDS
  /\ events' = Append(events, "sleep")
  /\ pc' = "analyze_call"
  /\ UNCHANGED <<env, build, image, response, result, components_data,
                 stride_data, request, output, exit_code, error>>

\* analyze_stride, lines 197-207: the prompt and llm.invoke
AnalyzeCall ==
  /\ pc = "analyze_call"
  /\ request' = stride_request(components_data)
  /\ events' = Append(events, "call_analyze")
  /\ \/ /\ \E r \in AnalyzeResponses : response' = r
        /\ pc' = "analyze_parse"
        /\ UNCHANGED <<exit_code, error>>
     \/ /\ Crash("analyze_call", "APIError")
        /\ UNCHANGED response
  /\ UNCHANGED <<env, build, image, result, components_data, stride_data,
                 output, clock>>

\* AnalyzeParse going on with an empty analysis when the parsing fails
AnalyzeParse_Swallow ==
  /\ pc = "analyze_parse"
  /\ LET res == analyze_stride(response)
         e == IF res.kind # "ok" THEN res.kind
              ELSE total_threats_error(res.val)
     IN  /\ result' = res
         /\ stride_data' = IF e = "" THEN res.val ELSE Dict({})
         /\ events' = IF e = "" THEN Append(events, "analyze_parsed") ELSE events
         /\ pc' = "sleep2"
         /\ UNCHANGED <<exit_code, error>>
  /\ UNCHANGED <<env, build, image, response, components_data, request,
                 output, clock>>

\* analyze_stride, lines 208-224, and main, lines 460-465
AnalyzeParse ==
  /\ pc = "analyze_parse"
  /\ LET res == analyze_stride(response)
         e == IF res.kind # "ok" THEN res.kind
              ELSE total_threats_error(res.val)
     IN  /\ result' = res
         /\ IF e = ""
            THEN /\ stride_data' = res.val
                 /\ events' = Append(events, "analyze_parsed")
                 /\ pc' = "sleep2"
                 /\ UNCHANGED <<exit_code, error>>
            ELSE /\ Crash("analyze_parse", e)
                 /\ stride_data' = IF res.kind = "ok" THEN res.val ELSE stride_data
                 /\ UNCHANGED events
  /\ UNCHANGED <<env, build, image, response, components_data, request,
                 output, clock>>

\* main, line 467
Sleep2 ==
  /\ pc = "sleep2"
  /\ clock' = clock + SLEEP_SECONDS
  /\ events' = Append(events, "sleep")
  /\ pc' = "report"
  /\ UNCHANGED <<env, build, image, response, result, components_data,
                 stride_data, request, output, exit_code, error>>

\* main, lines 470-476, and generate_report: the text is built, then the
\* file is opened for writing (which empties it) and the text written
GenerateReport ==
  /\ pc = "report"
  /\ \E now \in {1, 2}, disk \in {"ok", "open_fails", "write_fails"} :
       LET rep == generate_report(components_data, stride_data,
                                  <<"diagram", image_ext>>, now)
       IN  /\ events' = Append(events, "render")
           /\ IF rep.err # ""
              THEN /\ Crash("render", rep.err)
                   /\ UNCHANGED output
              ELSE IF disk = "open_fails"
                THEN /\ Crash("open", "OSError")
                     /\ UNCHANGED output
              ELSE IF disk = "write_fails"
                THEN /\ Crash("write", "OSError")
                     /\ output' = [state |-> "opened", content |-> <<>>]
              ELSE /\ output' = [state |-> "written", content |-> rep.lines]
                   /\ pc' = "done"
                   /\ exit_code' = 0
                   /\ UNCHANGED error
  /\ UNCHANGED <<env, build, image, response, result, components_data,
                 stride_data, request, clock>>

Next ==
  \/ CheckImage \/ CheckKey \/ LoadImage
  \/ ExtractCall \/ ExtractParse \/ Sleep1
  \/ AnalyzeCall \/ AnalyzeParse \/ Sleep2
  \/ GenerateReport

Spec == Init /\ [][Next]_vars

\* ------------------------------------------------------------------------
\* The response parsing on its own: main stands before one of the two
\* parsing steps with a response drawn from Befores x Bodies x Afters
\* ------------------------------------------------------------------------

InitParse ==
  /\ pc \in {"extract_parse", "analyze_parse"}
  /\ image_exists = TRUE
  /\ image_readable = TRUE
  /\ image_ext = ".png"
  /\ api_key = "sk-key"
  /\ image = [data |-> "base64", mime |-> mime_type_of(".png")]
  /\ input \in [before : Befores, body : Bodies, after : Afters]
  /\ response = Content(input)
  /\ result = NoResult
  /\ stride_data = JNull
  /\ output = Untouched
  /\ exit_code = -1
  /\ error = NoError
  /\ IF pc = "extract_parse"
     THEN /\ events = <<"init_llm", "image_read", "call_extract">>
          /\ components_data = JNull
          /\ request = NoRequest
          /\ clock = 0
     ELSE /\ events = <<"init_llm", "image_read", "call_extract",
                        "extract_parsed", "sleep", "call_analyze">>
          /\ components_data = ArchAB
          /\ request = stride_request(ArchAB)
          /\ clock = SLEEP_SECONDS
  /\ comps = <<>>
  /\ entries = <<>>
  /\ focus = "parse"

NextParse == ExtractParse \/ AnalyzeParse

SpecParse == InitParse /\ [][NextParse]_vars

\* ------------------------------------------------------------------------
\* The renderer on its own: the two documents are put together piece by
\* piece, then main stands before generate_report with them
\* ------------------------------------------------------------------------

\* a component of the document being put together
ComponentOf(c) ==
  Dict((IF c.named THEN {<<Key("name"), Lit(c.named_as)>>} ELSE {})
       \cup {<<Key("type"), Lit("API")>>}
       \cup (IF c.haskey THEN {<<Key("connections"), JList(c.conns)>>} ELSE {}))

ComponentsDoc(cs) ==
  Dict({<<Key("components"), JList([i \in 1..Len(cs) |-> ComponentOf(cs[i])])>>,
        <<Key("architecture_summary"), Lit("summary")>>})

EntryOf(e) ==
  Dict({<<Key("component_name"), Lit("A")>>}
       \cup (IF e.haskey THEN {<<Key("threats"), JList(e.threats)>>} ELSE {}))

StrideDoc(es) ==
  Dict({<<Key("stride_analysis"), JList([i \in 1..Len(es) |-> EntryOf(es[i])])>>,
        <<Key("overall_risk_level"), Lit("High")>>})

RECURSIVE SumLen(_, _)
SumLen(ss, field) ==
  IF ss = <<>> THEN 0
  ELSE (IF field = "conns" THEN Len(Head(ss).conns) ELSE Len(Head(ss).threats))
       + SumLen(Tail(ss), field)

FixedComps ==
  << [named |-> TRUE, named_as |-> "A", haskey |-> TRUE, conns |-> <<ConnAB>>],
     [named |-> TRUE, named_as |-> "B", haskey |-> TRUE, conns |-> <<>>] >>

FixedEntries ==
  << [haskey |-> TRUE, threats |-> <<Threat(Lit("Spoofing"), Lit("Critical"))>>],
     [haskey |-> TRUE, threats |-> <<Threat(Lit("Spoofing"), Lit("Low"))>>] >>

InitReport ==
  /\ pc = "build"
  /\ image_exists = TRUE
  /\ image_readable = TRUE
  /\ image_ext = ".png"
  /\ api_key = "sk-key"
  /\ image = [data |-> "base64", mime |-> mime_type_of(".png")]
  /\ events = <<"init_llm", "image_read", "call_extract", "extract_parsed",
                "sleep", "call_analyze", "analyze_parsed", "sleep">>
  /\ response = <<>>
  /\ result = NoResult
  /\ components_data = JNull
  /\ stride_data = JNull
  /\ request = NoRequest
  /\ output = Untouched
  /\ exit_code = -1
  /\ error = NoError
  /\ clock = 2 * SLEEP_SECONDS
  /\ input = NoInput
  /\ focus \in {"components", "threats"}
  /\ comps = IF focus = "components" THEN <<>> ELSE FixedComps
  /\ entries = IF focus = "threats" THEN <<>> ELSE FixedEntries

running == <<pc, env, image, events, response, result, components_data,
             stride_data, request, output, exit_code, error, clock, input,
             focus>>

AddComponent ==
  /\ pc = "build" /\ focus = "components"
  /\ Len(comps) < MaxComponents
  /\ \E named \in BOOLEAN, haskey \in BOOLEAN :
       comps' = Append(comps, [named |-> named, named_as |-> "A",
                               haskey |-> haskey, conns |-> <<>>])
  /\ UNCHANGED <<running, entries>>

AddConnection ==
  /\ pc = "build" /\ focus = "components"
  /\ comps # <<>> /\ comps[Len(comps)].haskey
  /\ SumLen(comps, "conns") < MaxConnections
  /\ \E c \in ConnPool :
       comps' = [comps EXCEPT ![Len(comps)].conns = Append(@, c)]
  /\ UNCHANGED <<running, entries>>

AddEntry ==
  /\ pc = "build" /\ focus = "threats"
  /\ Len(entries) < MaxEntries
  /\ \E haskey \in BOOLEAN :
       entries' = Append(entries, [haskey |-> haskey, threats |-> <<>>])
  /\ UNCHANGED <<running, comps>>

AddThreat ==
  /\ pc = "build" /\ focus = "threats"
  /\ entries # <<>> /\ entries[Len(entries)].haskey
  /\ SumLen(entries, "threats") < MaxThreats
  /\ \E t \in ThreatPool :
       entries' = [entries EXCEPT ![Len(entries)].threats = Append(@, t)]
  /\ UNCHANGED <<running, comps>>

\* the two documents as extract_components and analyze_stride returned them
FinishBuild ==
  /\ pc = "build"
  /\ components_data' = ComponentsDoc(comps)
  /\ stride_data' = StrideDoc(entries)
  /\ request' = stride_request(ComponentsDoc(comps))
  /\ pc' = "report"
  /\ UNCHANGED <<env, build, image, events, response, result, output,
                 exit_code, error, clock>>

NextReport ==
  \/ AddComponent \/ AddConnection \/ AddEntry \/ AddThreat
  \/ FinishBuild \/ GenerateReport

SpecReport == InitReport /\ [][NextReport]_vars

\* ------------------------------------------------------------------------
\* Properties
\* ------------------------------------------------------------------------

Occurs(e) == \E i \in 1..Len(events) : events[i] = e
Count(e) == Cardinality({i \in 1..Len(events) : events[i] = e})
Before(a, b) ==
  \A j \in 1..Len(events) :
    events[j] = b => \E i \in 1..(j - 1) : events[i] = a
Terminated == pc \in {"exited", "crashed", "done"}

\* C1: the report file is written only after the image was loaded and both
\* responses were parsed; when the image load, a model call or a response
\* parse fails, the run is over and the output path was never opened.
C1_NoPartialReport ==
  /\ output # Untouched =>
       /\ image # NoImage
       /\ Occurs("extract_parsed") /\ Occurs("analyze_parsed")
       /\ Before("image_read", "extract_parsed")
       /\ Before("extract_parsed", "analyze_parsed")
       /\ Before("analyze_parsed", "render")
  /\ error.stage \in {"load_image", "extract_call", "extract_parse",
                      "analyze_call", "analyze_parse"} =>
       /\ pc = "crashed" /\ exit_code = 1
       /\ output = Untouched
  /\ ~Occurs("analyze_parsed") /\ Terminated => output = Untouched

C1_Witness ==
  /\ pc = "crashed" /\ error.stage = "analyze_parse"
  /\ Occurs("extract_parsed") /\ output = Untouched

\* C2: a missing image or an absent or empty credential ends the run with a
\* diagnostic and exit code 1 before the image is read, a call is made or
\* the output is touched; the image is checked first; a run that passes both
\* checks and meets no failure ends with exit code 0.
C2_ExitCodes ==
  /\ ~image_exists /\ pc # "start" =>
       /\ pc = "exited" /\ exit_code = 1
       /\ events = <<"print_image_not_found">>
       /\ image = NoImage /\ output = Untouched
  /\ image_exists /\ api_key \in {"None", ""} /\ pc \notin {"start", "check_key"} =>
       /\ pc = "exited" /\ exit_code = 1
       /\ events = <<"print_key_not_set">>
       /\ image = NoImage /\ output = Untouched
  /\ exit_code = 0 <=> pc = "done"
  /\ image_exists /\ api_key \notin {"None", ""} /\ error = NoError /\ Terminated =>
       pc = "done" /\ exit_code = 0

C2_Witness ==
  pc = "exited" /\ ~image_exists /\ api_key = "" /\ exit_code = 1

\* C3: the two calls happen one after the other, each at most once; the
\* STRIDE request is issued after the extraction response was parsed and
\* carries its components and summary; a sleep of SLEEP_SECONDS follows each
\* successful stage before the next starts.
C3_SequentialCalls ==
  /\ Count("call_extract") <= 1 /\ Count("call_analyze") <= 1
  /\ Before("extract_parsed", "call_analyze")
  /\ Before("call_extract", "extract_parsed")
  /\ pc \in {"sleep1", "analyze_call"} =>
       result.kind = "ok" /\ components_data = result.val
  /\ Occurs("call_analyze") =>
       /\ json_loads(request.components_json) =
            [kind |-> "ok",
             val |-> Get(components_data, Key("components"), JList(<<>>))]
       /\ request.architecture_summary =
            Get(components_data, Key("architecture_summary"), NA)
  /\ \A i \in 1..Len(events) :
       /\ events[i] \in {"call_analyze", "render"} =>
            i > 1 /\ events[i - 1] = "sleep"
       /\ events[i] \in {"extract_parsed", "analyze_parsed"} /\ i < Len(events) =>
            events[i + 1] = "sleep"
  /\ clock = SLEEP_SECONDS * Count("sleep")

C3_Witness ==
  /\ pc = "analyze_parse" /\ components_data = ArchAB
  /\ request.architecture_summary = Lit("summary")

\* what the parsing on its own was given and did
Parsed == focus = "parse" /\ result # NoResult
NoBraces(t) == \A i \in 1..Len(t) : t[i] \notin {"{", "}"}
IsObjectText(t) ==
  /\ t # <<>> /\ t[1] = "{" /\ t[Len(t)] = "}"
  /\ json_loads(t).kind = "ok"

\* C4: for a response noise + J + noise, with J the text of a JSON object
\* and no brace in the noise, the response parsing returns what parsing J
\* returns.
C4_NoiseAroundObject ==
  Parsed /\ IsObjectText(input.body)
         /\ NoBraces(input.before) /\ NoBraces(input.after) =>
    result = json_loads(input.body)

\* C5: for a response without any brace the response parsing raises a
\* parse error (ValueError or its subclass JSONDecodeError) and returns
\* nothing.
C5_NoBracesFails ==
  Parsed /\ NoBraces(response) =>
    result.kind \in {"ValueError", "JSONDecodeError"}

\* the fenced responses: an opening fence with or without a language tag,
\* on the line of the content or on its own line, and a closing fence
FenceOpenings ==
  { Fence \o <<NL>>, Fence \o <<"json", NL>>, Fence, Fence \o <<"json", " ">> }
FenceClosings == { <<NL>> \o Fence, Fence }
Fenced == input.before \in FenceOpenings /\ input.after \in FenceClosings
Unfenced ==
  IF Occurs("call_analyze") THEN analyze_stride(input.body)
  ELSE extract_components(input.body)

\* C6: a response wrapped in triple-backtick fences parses to what its
\* content parses to without the fences, whenever that content parses.
C6_FenceStripped ==
  Parsed /\ Fenced /\ Unfenced.kind = "ok" => result = Unfenced

\* the threats of a report as (entry, position) pairs, and the lines of a
\* written report
EntriesOf(sd) == Get(sd, Key("stride_analysis"), JList(<<>>))[2]
ThreatsAt(sd, i) == Get(EntriesOf(sd)[i], Key("threats"), JList(<<>>))[2]
ThreatIds(sd) ==
  {<<i, j>> \in (1..Len(EntriesOf(sd))) \X (1..(MaxThreats + 1)) :
     j <= Len(ThreatsAt(sd, i))}
FieldOf(sd, id, field) == Get(ThreatsAt(sd, id[1])[id[2]], Key(field), JNull)
NumberWith(sd, field, label) ==
  Cardinality({id \in ThreatIds(sd) : FieldOf(sd, id, field) = label})

Written == focus \in {"components", "threats"} /\ output.state = "written"
RowsOf(tag) == SelectSeq(output.content, LAMBDA l : l[1] = tag)
RowCount(tag, label) ==
  LET rows == SelectSeq(RowsOf(tag), LAMBDA l : l[Len(l) - 1] = label)
  IN  IF Len(rows) = 1 THEN rows[1][Len(rows[1])] ELSE -1

EnglishSeverities == {Lit("Critical"), Lit("High"), Lit("Medium"), Lit("Low")}
PortugueseSeverities == {Lit("Critica"), Lit("Alta"), Lit("Media"), Lit("Baixa")}
Categories == {CategoryLabels[i] : i \in 1..Len(CategoryLabels)}

\* C7: the closing summary shows, for each of Critical, High, Medium and
\* Low, the number of threats with that severity, and for each of the six
\* STRIDE categories the number of threats with that category; a threat of
\* another category is in no row.
C7_SummaryCounts ==
  Written =>
    /\ Len(RowsOf("sev_row")) = 4 /\ Len(RowsOf("cat_row")) = 6
    /\ \A s \in EnglishSeverities :
         RowCount("sev_row", s) = NumberWith(stride_data, "severity", s)
    /\ \A c \in Categories :
         RowCount("cat_row", c) = NumberWith(stride_data, "category", c)
    /\ \A k \in 1..6 : RowsOf("cat_row")[k][2] \in Categories

C7_Witness ==
  /\ Written
  /\ Len(EntriesOf(stride_data)) = 2
  /\ NumberWith(stride_data, "severity", Lit("Critical")) = 2
  /\ NumberWith(stride_data, "severity", Lit("Low")) = 1
  /\ NumberWith(stride_data, "category", Lit("Phishing")) = 0
  /\ RowCount("sev_row", Lit("Critical")) = 2
  /\ RowCount("sev_row", Lit("Low")) = 1
  /\ RowCount("sev_row", Lit("High")) = 0

RECURSIVE SumRows(_)
SumRows(rows) ==
  IF rows = <<>> THEN 0 ELSE Head(rows)[Len(Head(rows))] + SumRows(Tail(rows))

\* C8: the counts shown in the severity table sum to the number of threats
\* whose severity is one of the eight labels of the two vocabularies.
C8_BothVocabulariesShown ==
  Written =>
    SumRows(RowsOf("sev_row")) =
      Cardinality({id \in ThreatIds(stride_data) :
        FieldOf(stride_data, id, "severity")
          \in EnglishSeverities \cup PortugueseSeverities})

\* the data-flow and STRIDE lines a written report holds, and the ones its
\* two documents call for
ComponentsOf(cd) == Get(cd, Key("components"), JList(<<>>))[2]
ConnectionsOf(comp) == Get(comp, Key("connections"), JList(<<>>))[2]

FlowLinesFor(comp) ==
  IF ConnectionsOf(comp) = <<>> THEN <<>>
  ELSE << <<"flow_h3", Get(comp, Key("name"), JNull)>> >>
       \o [k \in 1..Len(ConnectionsOf(comp)) |->
             <<"flow_line",
               Get(ConnectionsOf(comp)[k], Key("target"), Lit("?")),
               Get(ConnectionsOf(comp)[k], Key("data_flow"), Lit("?"))>>]

ExpectedFlow(cd) ==
  Flatten([i \in 1..Len(ComponentsOf(cd)) |-> FlowLinesFor(ComponentsOf(cd)[i])])

ShownFlow ==
  SelectSeq(output.content, LAMBDA l : l[1] \in {"flow_h3", "flow_line"})

StrideLinesFor(sd, i) ==
  << <<"stride_h3">> >>
  \o (IF ThreatsAt(sd, i) = <<>> THEN << <<"placeholder">> >>
      ELSE << <<"table_header">> >>
           \o [j \in 1..Len(ThreatsAt(sd, i)) |->
                 <<"threat_row",
                   Get(ThreatsAt(sd, i)[j], Key("category"), NA),
                   Get(ThreatsAt(sd, i)[j], Key("severity"), NA)>>])

ExpectedStride(sd) ==
  Flatten([i \in 1..Len(EntriesOf(sd)) |-> StrideLinesFor(sd, i)])

ShownStride ==
  LET ls == SelectSeq(output.content,
              LAMBDA l : l[1] \in {"stride_h3", "placeholder", "table_header",
                                   "threat_row"})
  IN  [k \in 1..Len(ls) |->
         IF ls[k][1] = "threat_row" THEN <<"threat_row", ls[k][2], ls[k][5]>>
         ELSE <<ls[k][1]>>]

\* the scenario: two components, one connection, one Spoofing threat on each
Scenario ==
  /\ Len(ComponentsOf(components_data)) = 2
  /\ Len(ConnectionsOf(ComponentsOf(components_data)[1])) = 1
  /\ Len(ConnectionsOf(ComponentsOf(components_data)[2])) = 0
  /\ Len(EntriesOf(stride_data)) = 2
  /\ \A i \in 1..2 :
       /\ Len(ThreatsAt(stride_data, i)) = 1
       /\ FieldOf(stride_data, <<i, 1>>, "category") = Lit("Spoofing")

\* C9: a written report holds one data-flow section per component with at
\* least one connection, with one line per connection in order, and for
\* each entry one table with one row per threat in order, or the
\* placeholder line when the entry has no threats; the scenario gives one
\* data-flow section, two tables of one row and Spoofing = 2, the rest 0.
C9_SectionsPerComponent ==
  Written =>
    /\ ShownFlow = ExpectedFlow(components_data)
    /\ ShownStride = ExpectedStride(stride_data)
    /\ Len(RowsOf("table_sep")) = Len(RowsOf("table_header"))
    /\ Scenario =>
         /\ Len(RowsOf("flow_h3")) = 1
         /\ Len(RowsOf("table_header")) = 2
         /\ Len(RowsOf("threat_row")) = 2
         /\ Len(RowsOf("placeholder")) = 0
         /\ RowCount("cat_row", Lit("Spoofing")) = 2
         /\ \A c \in Categories \ {Lit("Spoofing")} : RowCount("cat_row", c) = 0

C9_Witness == Written /\ Scenario /\ Len(RowsOf("flow_line")) = 1

\* the components without a name
Nameless(cd) ==
  {i \in 1..Len(ComponentsOf(cd)) : ~Has(ComponentsOf(cd)[i], Key("name"))}

Rendered == focus \in {"components", "threats"} /\ Occurs("render")

\* C10: with fields missing the renderer puts placeholders, except that it
\* fails exactly when a component without a name has at least one
\* connection; a nameless component without connections is N/A in the
\* inventory table; a failed rendering leaves the output file untouched.
C10_MissingName ==
  Rendered =>
    /\ error.stage = "render" <=>
         \E i \in Nameless(components_data) :
           ConnectionsOf(ComponentsOf(components_data)[i]) # <<>>
    /\ error.stage = "render" =>
         error.kind = "KeyError" /\ output = Untouched /\ exit_code = 1
    /\ output.state = "written" =>
         /\ Len(RowsOf("inv_row")) = Len(ComponentsOf(components_data))
         /\ \A i \in Nameless(components_data) : RowsOf("inv_row")[i][3] = NA

C10_Witness ==
  /\ Rendered /\ error.stage = "render" /\ output = Untouched
  /\ Len(ComponentsOf(components_data)) = 2
  /\ Nameless(components_data) = {1, 2}
  /\ ConnectionsOf(ComponentsOf(components_data)[1]) = <<>>

====
